---- MODULE Spec2Model ----
(***************************************************************************)
(* Local development assistant: the action dispatch gateway               *)
(* (src/src/mcp_server.py), the workspace store (src/src/file_tools.py)   *)
(* and the generation backend client (src/src/ollama_client.py).          *)
(*                                                                         *)
(* Python values are modelled as follows.  A dict is a function whose     *)
(* domain is its set of keys; d.get(k, default) is Get(d, k, default).    *)
(* Where the code tests the type of a value (isinstance, or a method that *)
(* only mappings have) the value carries a tag: Dict(d), Str(s), List(l). *)
(* An Optional field of the response is None or Some(v).  A path string   *)
(* is modelled by the sequence of its components ("a/b.txt" is            *)
(* <<"a", "b.txt">>, the empty string is <<>>) and PathStr renders it.    *)
(* The text of a file is a sequence of characters.                        *)
(***************************************************************************)
EXTENDS Integers, Sequences, FiniteSets, TLC

VARIABLES
    fs,            \* the workspace directory: [dirs, files, mtime]
    clock,         \* filesystem time, one tick per mutating store call
    served,        \* TRUE once process_request has returned at least once
    req,           \* the last request given to process_request
    resp,          \* the MCPResponse it returned
    backend,       \* what the backend answers to a probe during that request
    probes,        \* the availability probes made during that request
    backendCalls,  \* the generate/chat calls made during that request
    storeOps,      \* the workspace store operations made during that request
    invoked,       \* the handler that request invoked, or "none"
    history,       \* the caller's history list after that request
    raised,        \* the exception raised inside that request, if any
    escaped,       \* TRUE when that exception left process_request
    returned,      \* what the handler of that request returned, if it returned
    environment,   \* what the environment decided during that request
    callers,       \* concurrent callers of FileSystemTools.create_project
    storeCall,     \* the last direct call of a FileSystemTools operation
    written,       \* the text last written to each path by write_file
    cli,           \* the chat loop of the command line: its position and history
    exchanges      \* every exchange the chat loop completed, oldest first

vars == <<fs, clock, served, req, resp, backend, probes, backendCalls, storeOps,
          invoked, history, raised, escaped, returned, environment, callers,
          storeCall, written, cli, exchanges>>

gatewayVars == <<served, req, resp, backend, probes, backendCalls, storeOps, invoked,
                 history, raised, escaped, returned, environment>>

-----------------------------------------------------------------------------
(* Bounds of the model *)

\* mutating store calls in one behaviour
MaxClock == 2
\* entries in a supplied chat history
MaxHist == 2

-----------------------------------------------------------------------------
(* Python values *)

None == [type |-> "NoneType"]
Some(v) == [type |-> "value", val |-> v]
Str(s) == [type |-> "str", val |-> s]
Dict(d) == [type |-> "dict", val |-> d]
List(l) == [type |-> "list", val |-> l]

EmptyDict == <<>>

Get(d, k, default) == IF k \in DOMAIN d THEN d[k] ELSE default

\* d.get(k): None when the key is absent
GetOpt(d, k) == IF k \in DOMAIN d THEN Some(d[k]) ELSE None

SeqOf(S, n) == UNION {[1..k -> S] : k \in 0..n}

RECURSIVE ListRepr(_)
\* str() of a list of strings, without the opening bracket
ListRepr(l) ==
    IF l = <<>> THEN "]"
    ELSE "'" \o Head(l) \o "'" \o (IF Len(l) > 1 THEN ", " ELSE "") \o ListRepr(Tail(l))

-----------------------------------------------------------------------------
(* Paths *)

Workspace == <<"workspace">>

RECURSIVE PathStr(_)
\* str(path) of an absolute path
PathStr(p) == IF p = <<>> THEN "" ELSE "/" \o Head(p) \o PathStr(Tail(p))

RECURSIVE RelStr(_)
\* the string of a relative path
RelStr(p) ==
    IF p = <<>> THEN ""
    ELSE IF Len(p) = 1 THEN Head(p)
    ELSE Head(p) \o "/" \o RelStr(Tail(p))

Parent(p) == SubSeq(p, 1, Len(p) - 1)

Prefixes(p) == {SubSeq(p, 1, k) : k \in 1..Len(p)}

-----------------------------------------------------------------------------
(* The workspace directory tree.  Paths are relative to the workspace     *)
(* root, which FileSystemTools.__init__ creates.                           *)

EmptyFs == [dirs |-> {}, files |-> <<>>, mtime |-> <<>>]

IsDir(f, p) == p = <<>> \/ p \in f.dirs
IsFile(f, p) == p \in DOMAIN f.files
Exists(f, p) == IsDir(f, p) \/ IsFile(f, p)

\* a directory's st_mtime changes when an entry is created directly in it;
\* the model keeps the st_mtime of the directories list_projects looks at
Touch(f, created, now) ==
    LET tops == {d \in f.dirs : Len(d) = 1}
        hit == {d \in tops : d \in created \/ \E n \in created : Parent(n) = d}
    IN [d \in tops |-> IF d \in hit THEN now ELSE f.mtime[d]]

\* Path.mkdir(parents=True, exist_ok=...)
Mkdir(f, p, exist_ok, now) ==
    IF \E q \in Prefixes(Parent(p)) : IsFile(f, q)
    THEN [ok |-> FALSE, exc |-> "[Errno 20] Not a directory: '" \o PathStr(Workspace \o p) \o "'", fs |-> f]
    ELSE IF IsFile(f, p) \/ (IsDir(f, p) /\ ~exist_ok)
    THEN [ok |-> FALSE, exc |-> "[Errno 17] File exists: '" \o PathStr(Workspace \o p) \o "'", fs |-> f]
    ELSE LET created == Prefixes(p) \ f.dirs
             g == [f EXCEPT !.dirs = f.dirs \cup created]
         IN [ok |-> TRUE, exc |-> "",
             fs |-> IF created = {} THEN f ELSE [g EXCEPT !.mtime = Touch(g, created, now)]]

\* Path.write_text(content, encoding='utf-8'): text mode writes '\n' as
\* os.linesep, which is '\n' on the platform the program runs on
Encode(content) == content

RECURSIVE Decode(_)
\* Path.read_text(encoding='utf-8'): text mode with universal newlines
\* turns "\r\n" and a lone "\r" into "\n"
Decode(stored) ==
    IF stored = <<>> THEN <<>>
    ELSE IF Head(stored) = "\r"
    THEN IF Len(stored) > 1 /\ stored[2] = "\n"
         THEN <<"\n">> \o Decode(Tail(Tail(stored)))
         ELSE <<"\n">> \o Decode(Tail(stored))
    ELSE <<Head(stored)>> \o Decode(Tail(stored))

WriteText(f, p, content, now) ==
    IF IsDir(f, p)
    THEN [ok |-> FALSE, exc |-> "[Errno 21] Is a directory: '" \o PathStr(Workspace \o p) \o "'", fs |-> f]
    ELSE IF ~IsDir(f, Parent(p))
    THEN [ok |-> FALSE, exc |-> "[Errno 2] No such file or directory: '" \o PathStr(Workspace \o p) \o "'", fs |-> f]
    ELSE LET g == [f EXCEPT !.files = [q \in DOMAIN f.files \cup {p} |->
                                         IF q = p THEN Encode(content) ELSE f.files[q]]]
         IN [ok |-> TRUE, exc |-> "",
             fs |-> IF IsFile(f, p) THEN g ELSE [g EXCEPT !.mtime = Touch(g, {p}, now)]]

-----------------------------------------------------------------------------
(* FileSystemTools: the project templates.  A template is the list of     *)
(* (relative path, text) pairs in the order the dict holds them; a text   *)
(* is abstracted to the sequence of its pieces, the project name among    *)
(* them where the f-string embeds it.                                      *)

_get_python_template(project_name) ==
    << <<<<"README.md">>, <<"# ", project_name, "\n", "A Python project">>>>,
       <<<<"requirements.txt">>, <<"# Core dependencies", "\n">>>>,
       <<<<"src", "__init__.py">>, <<>>>>,
       <<<<"src", "main.py">>, <<"#!/usr/bin/env python3", "\n", project_name>>>>,
       <<<<"src", "utils.py">>, <<"def safe_divide", "\n">>>>,
       <<<<"tests", "__init__.py">>, <<>>>>,
       <<<<"tests", "test_main.py">>, <<"def test_main", "\n", project_name>>>>,
       <<<<"tests", "test_utils.py">>, <<"def test_safe_divide", "\n">>>>,
       <<<<".gitignore">>, <<"# Python", "\n">>>>,
       <<<<".env.example">>, <<"# Environment variables for ", project_name, "\n">>>>,
       <<<<"pyproject.toml">>, <<"[build-system]", "\n", project_name>>>> >>

\* template[key] = text: an existing key keeps its place, a new key goes last
SetItem(template, key, text) ==
    IF \E i \in 1..Len(template) : template[i][1] = key
    THEN [i \in 1..Len(template) |->
            IF template[i][1] = key THEN <<key, text>> ELSE template[i]]
    ELSE Append(template, <<key, text>>)

_get_ml_template(project_name) ==
    LET t1 == SetItem(_get_python_template(project_name),
                      <<"requirements.txt">>, <<"# Machine Learning", "\n">>)
        t2 == SetItem(t1, <<"src", "data_loader.py">>, <<"class DataLoader", "\n">>)
        t3 == SetItem(t2, <<"notebooks", ".gitkeep">>, <<>>)
        t4 == SetItem(t3, <<"data", ".gitkeep">>, <<>>)
    IN SetItem(t4, <<"models", ".gitkeep">>, <<>>)

_get_web_template(project_name) ==
    LET t1 == SetItem(_get_python_template(project_name),
                      <<"requirements.txt">>, <<"# Web framework", "\n">>)
    IN SetItem(t1, <<"src", "main.py">>, <<"from fastapi import FastAPI", "\n", project_name>>)

_get_basic_template(project_name) ==
    << <<<<"README.md">>, <<"# ", project_name, "\n", "\n", "A project created by Local Development Assistant.">>>>,
       <<<<"main.py">>, <<"print(\"Hello from ", project_name, "!\")">>>>,
       <<<<".gitignore">>, <<"*.pyc", "\n", "__pycache__/", "\n", ".env", "\n">>>> >>

\* the template create_project selects by type
TemplateFor(project_type, project_name) ==
    IF project_type = "python" THEN _get_python_template(project_name)
    ELSE IF project_type = "web" THEN _get_web_template(project_name)
    ELSE IF project_type = "ml" THEN _get_ml_template(project_name)
    ELSE _get_basic_template(project_name)

-----------------------------------------------------------------------------
(* FileSystemTools: the operations.  Each returns the result dict and the *)
(* directory tree it leaves.  `now` is the time of the call; `env` holds  *)
(* what the environment decides: an OS error on mkdir or write            *)
(* (env.fault, and for create_project the file env.failAt whose write     *)
(* raises), the files that cannot be read (env.unreadable), whether git   *)
(* is installed (env.git), how a command ends (env.run).                   *)

OsError == "[Errno 28] No space left on device"

AlreadyExists(project_name) ==
    "Project '" \o project_name \o "' already exists at " \o PathStr(Workspace \o <<project_name>>)

\* full_path.write_text(content), once the parent directory is there
WriteInto(mk, full_path, content, now, fails) ==
    IF ~mk.ok THEN mk
    ELSE IF fails THEN [ok |-> FALSE, exc |-> OsError, fs |-> mk.fs]
    ELSE WriteText(mk.fs, full_path, content, now)

\* the body of the loop that creates the files: one file of the template
WriteOne(f, project_path, file, now, fails) ==
    WriteInto(Mkdir(f, Parent(project_path \o file[1]), TRUE, now),
              project_path \o file[1], file[2], now, fails)

RECURSIVE WriteFiles(_, _, _, _, _, _, _)
RECURSIVE WriteRest(_, _, _, _, _, _, _)
\* the loop: stops at the first file whose write raises
WriteFiles(f, project_path, files, i, created_files, now, failAt) ==
    IF i > Len(files) THEN [ok |-> TRUE, exc |-> "", fs |-> f, files |-> created_files]
    ELSE WriteRest(WriteOne(f, project_path, files[i], now, i = failAt),
                   project_path, files, i, created_files, now, failAt)

\* the loop after file i was written (w is what writing it gave)
WriteRest(w, project_path, files, i, created_files, now, failAt) ==
    IF ~w.ok THEN [ok |-> FALSE, exc |-> w.exc, fs |-> w.fs, files |-> created_files]
    ELSE WriteFiles(w.fs, project_path, files, i + 1,
                    Append(created_files, RelStr(files[i][1])), now, failAt)

\* git init, add, commit: best effort, creates .git when git runs
_init_git(f, project_path, git, now) ==
    IF git /\ IsDir(f, project_path) /\ ~Exists(f, project_path \o <<".git">>)
    THEN Mkdir(f, project_path \o <<".git">>, TRUE, now).fs
    ELSE f

CreateError(exc) == "Error creating project: " \o exc

\* the end of create_project: wr is what the loop over the files gave
Created(wr, project_name, project_type, now, env) ==
    IF ~wr.ok
    THEN [result |-> Dict([success |-> FALSE, message |-> CreateError(wr.exc)]),
          fs |-> wr.fs]
    ELSE [result |-> Dict([success |-> TRUE,
                           message |-> "Created " \o project_type \o " project '" \o project_name \o "'",
                           path |-> PathStr(Workspace \o <<project_name>>),
                           files |-> wr.files]),
          fs |-> _init_git(wr.fs, <<project_name>>, env.git, now)]

\* create_project after project_path.mkdir: mk is what the mkdir gave
Populate(mk, project_name, project_type, now, env) ==
    IF ~mk.ok
    THEN [result |-> Dict([success |-> FALSE, message |-> CreateError(mk.exc)]),
          fs |-> mk.fs]
    ELSE Created(WriteFiles(mk.fs, <<project_name>>, TemplateFor(project_type, project_name),
                            1, <<>>, now, IF env.fault = "write" THEN env.failAt ELSE 0),
                 project_name, project_type, now, env)

\* the mkdir tolerating a directory that is there
MakeProjectDirExistOk(f, project_name, now) == Mkdir(f, <<project_name>>, TRUE, now)

\* project_path.mkdir(parents=True): raises when the directory is there
MakeProjectDir(f, project_name, now) == Mkdir(f, <<project_name>>, FALSE, now)

\* create_project without the test that the directory exists, the mkdir
\* tolerating an existing directory
create_project_clobber(f, project_name, project_type, now, env) ==
    Populate(Mkdir(f, <<project_name>>, TRUE, now), project_name, project_type, now, env)

create_project(f, project_name, project_type, now, env) ==
    IF Exists(f, <<project_name>>)
    THEN [result |-> Dict([success |-> FALSE, message |-> AlreadyExists(project_name)]),
          fs |-> f]
    ELSE Populate(IF env.fault = "mkdir"
                  THEN [ok |-> FALSE, exc |-> OsError, fs |-> f]
                  ELSE MakeProjectDir(f, project_name, now),
                  project_name, project_type, now, env)

StartsWithDot(name) == name \in {".git", ".hidden"}

Descriptor(f, item) ==
    [name |-> item[1],
     path |-> PathStr(Workspace \o item),
     type |-> IF Exists(f, item \o <<"package.json">>) THEN "javascript"
              ELSE IF Exists(f, item \o <<"requirements.txt">>) THEN "python"
              ELSE "unknown",
     has_src |-> Exists(f, item \o <<"src">>),
     has_readme |-> Exists(f, item \o <<"README.md">>),
     modified |-> f.mtime[item]]

RECURSIVE SortedOldestFirst(_)
\* sorted(projects, key=modified) without reverse=True
SortedOldestFirst(S) ==
    IF S = {} THEN <<>>
    ELSE LET first == CHOOSE x \in S : \A y \in S : x.modified <= y.modified
         IN <<first>> \o SortedOldestFirst(S \ {first})

RECURSIVE SortedByModified(_)
\* sorted(projects, key=modified, reverse=True)
SortedByModified(S) ==
    IF S = {} THEN <<>>
    ELSE LET first == CHOOSE x \in S : \A y \in S : y.modified <= x.modified
         IN <<first>> \o SortedByModified(S \ {first})

list_projects(f) ==
    SortedByModified({Descriptor(f, item) :
                        item \in {d \in f.dirs : Len(d) = 1 /\ ~StartsWithDot(d[1])}})

read_file(f, file_path, env) ==
    IF ~Exists(f, file_path)
    THEN Dict([success |-> FALSE, message |-> "File not found: " \o RelStr(file_path)])
    ELSE IF IsDir(f, file_path)
    THEN Dict([success |-> FALSE,
               message |-> "Error reading file: [Errno 21] Is a directory: '"
                           \o PathStr(Workspace \o file_path) \o "'"])
    ELSE IF file_path \in env.unreadable
    THEN Dict([success |-> FALSE, message |-> "Error reading file: [Errno 13] Permission denied"])
    ELSE LET content == Decode(f.files[file_path])
         IN Dict([success |-> TRUE, content |-> content,
                  path |-> PathStr(Workspace \o file_path), size |-> Len(content)])

\* the end of write_file: wr is what mkdir and write_text gave
Written(wr, file_path, content) ==
    IF ~wr.ok
    THEN [result |-> Dict([success |-> FALSE, message |-> "Error writing file: " \o wr.exc]),
          fs |-> wr.fs]
    ELSE [result |-> Dict([success |-> TRUE,
                           message |-> "File written: " \o PathStr(Workspace \o file_path),
                           path |-> PathStr(Workspace \o file_path),
                           size |-> Len(content)]),
          fs |-> wr.fs]

write_file(f, file_path, content, now, env) ==
    Written(WriteInto(Mkdir(f, Parent(file_path), TRUE, now), file_path, content, now,
                      env.fault = "write"),
            file_path, content)

\* subprocess.run(command.split(), cwd=..., timeout=30): the command's own
\* effects on the workspace are outside the model
run_command(command, cwd, env) ==
    IF env.run = "timeout"
    THEN Dict([success |-> FALSE, message |-> "Command timed out after 30 seconds"])
    ELSE IF env.run = "oserror"
    THEN Dict([success |-> FALSE,
               message |-> "Error running command: [Errno 2] No such file or directory"])
    ELSE LET returncode == IF env.run = "exit0" THEN 0 ELSE 1
         IN Dict([success |-> returncode = 0, stdout |-> "out", stderr |-> "err",
                  returncode |-> returncode, command |-> command])

-----------------------------------------------------------------------------
(* OllamaClient.  A reply is what the HTTP request to the backend gives:  *)
(* status 0 stands for a requests.exceptions.RequestException (no         *)
(* connection, timeout), otherwise the status code, the JSON body and the *)
(* response text.                                                          *)

ModelName == "llama3.2"

\* self.model in name
NameHasModel(name) == name \in {"llama3.2", "llama3.2:latest"}

AttributeError(t) == [type |-> "AttributeError", msg |-> "'" \o t \o "' object has no attribute 'get'"]
NoExc == [type |-> "", msg |-> ""]

RECURSIVE AnyModel(_)
\* any(self.model in model.get("name", "") for model in models)
AnyModel(models) ==
    IF models = <<>> THEN [raised |-> FALSE, exc |-> NoExc, value |-> FALSE]
    ELSE IF Head(models).type # "dict"
    THEN [raised |-> TRUE, exc |-> AttributeError(Head(models).type), value |-> FALSE]
    ELSE IF NameHasModel(Get(Head(models).val, "name", ""))
    THEN [raised |-> FALSE, exc |-> NoExc, value |-> TRUE]
    ELSE AnyModel(Tail(models))

is_available(reply) ==
    IF reply.status = 0 THEN [raised |-> FALSE, exc |-> NoExc, value |-> FALSE]
    ELSE IF reply.status = 200 THEN AnyModel(Get(reply.body, "models", <<>>))
    ELSE [raised |-> FALSE, exc |-> NoExc, value |-> FALSE]

\* every failure reported as a connection error
BackendErrorAsConnection(reply) ==
    [success |-> FALSE, error |-> "Connection error: " \o reply.text]

\* the result dict of generate and chat for a failed request
BackendError(reply) ==
    IF reply.status = 0
    THEN [success |-> FALSE, error |-> "Connection error: " \o reply.text]
    ELSE [success |-> FALSE, error |-> "HTTP " \o ToString(reply.status) \o ": " \o reply.text]

generate(prompt, system_prompt, reply) ==
    LET payload == [model |-> ModelName, prompt |-> prompt, stream |-> FALSE,
                    system |-> system_prompt]
    IN [call |-> [endpoint |-> "generate", payload |-> payload, reply |-> reply],
        result |-> IF reply.status = 200
                   THEN [success |-> TRUE,
                         response |-> Get(reply.body, "response", ""),
                         model |-> Get(reply.body, "model", ModelName),
                         done |-> Get(reply.body, "done", TRUE)]
                   ELSE BackendError(reply)]

\* the system message put after the conversation
ChatSystemLast(messages, system_prompt, reply) ==
    LET payload == [model |-> ModelName,
                    messages |-> messages \o <<[role |-> "system", content |-> system_prompt]>>,
                    stream |-> FALSE]
    IN [call |-> [endpoint |-> "chat", payload |-> payload, reply |-> reply],
        result |-> IF reply.status = 200
                   THEN [success |-> TRUE,
                         message |-> Get(reply.body, "message", Dict(EmptyDict)),
                         done |-> Get(reply.body, "done", TRUE)]
                   ELSE BackendError(reply)]

chat(messages, system_prompt, reply) ==
    LET payload == [model |-> ModelName,
                    messages |-> IF system_prompt # ""
                                 THEN <<[role |-> "system", content |-> system_prompt]>>
                                      \o messages
                                 ELSE messages,
                    stream |-> FALSE]
    IN [call |-> [endpoint |-> "chat", payload |-> payload, reply |-> reply],
        result |-> IF reply.status = 200
                   THEN [success |-> TRUE,
                         message |-> Get(reply.body, "message", Dict(EmptyDict)),
                         done |-> Get(reply.body, "done", TRUE)]
                   ELSE BackendError(reply)]

-----------------------------------------------------------------------------
(* LocalDevAssistantMCP: the handlers.  A handler's outcome is the dict   *)
(* it returns or the exception it raises, with the directory tree it      *)
(* leaves, the store operations and backend calls it made, and the        *)
(* caller's history list as the handler leaves it.                         *)

system_prompt == "You are a Local Development Assistant."

Unavailable == "Ollama is not available. Please ensure it's running with 'ollama serve'."

ToolNames ==
    <<"create_project", "list_projects", "generate_code", "read_file", "write_file",
      "run_command", "chat", "analyze_code", "suggest_improvements">>

ai_actions == {"generate_code", "chat", "analyze_code", "suggest_improvements"}

Ok(result, f, ops, calls, hist) ==
    [raised |-> FALSE, exc |-> NoExc, result |-> result, fs |-> f,
     storeOps |-> ops, backendCalls |-> calls, history |-> hist]

Raise(exc, f, ops, calls, hist) ==
    [raised |-> TRUE, exc |-> exc, result |-> None, fs |-> f,
     storeOps |-> ops, backendCalls |-> calls, history |-> hist]

Fail(error) == Dict([success |-> FALSE, error |-> error])

\* the history list a request carries (the caller's own list object)
HistoryOf(params) == Get(params, "history", <<>>)

_create_project(params, f, now, env) ==
    LET project_name == Get(params, "name", "")
        project_type == Get(params, "type", "python")
    IN IF project_name = ""
       THEN Ok(Fail("Project name is required"), f, <<>>, <<>>, HistoryOf(params))
       ELSE LET r == create_project(f, project_name, project_type, now, env)
            IN Ok(r.result, r.fs, <<"create_project">>, <<>>, HistoryOf(params))

_list_projects(params, f, now, env) ==
    LET projects == list_projects(f)
    IN Ok(Dict([success |-> TRUE, data |-> List(projects),
                message |-> "Found " \o ToString(Len(projects)) \o " projects"]),
          f, <<"list_projects">>, <<>>, HistoryOf(params))

_read_file(params, f, now, env) ==
    LET file_path == Get(params, "path", <<>>)
    IN IF file_path = <<>>
       THEN Ok(Fail("File path is required"), f, <<>>, <<>>, HistoryOf(params))
       ELSE Ok(read_file(f, file_path, env), f, <<"read_file">>, <<>>, HistoryOf(params))

_write_file(params, f, now, env) ==
    LET file_path == Get(params, "path", <<>>)
        content == Get(params, "content", <<>>)
    IN IF file_path = <<>>
       THEN Ok(Fail("File path is required"), f, <<>>, <<>>, HistoryOf(params))
       ELSE LET r == write_file(f, file_path, content, now, env)
            IN Ok(r.result, r.fs, <<"write_file">>, <<>>, HistoryOf(params))

\* the handler without its check of the command
RunCommandUnvalidated(params, f, now, env) ==
    Ok(run_command(Get(params, "command", ""), GetOpt(params, "cwd"), env),
       f, <<"run_command">>, <<>>, HistoryOf(params))

_run_command(params, f, now, env) ==
    LET command == Get(params, "command", "")
        cwd == GetOpt(params, "cwd")
    IN IF command = ""
       THEN Ok(Fail("Command is required"), f, <<>>, <<>>, HistoryOf(params))
       ELSE Ok(run_command(command, cwd, env), f, <<"run_command">>, <<>>, HistoryOf(params))

\* the handler calling generate a second time when the first call failed
GenerateCodeWithRetry(params, f, now, env) ==
    LET prompt == Get(params, "prompt", "")
        g == generate([template |-> "Generate {language} code for: {prompt}",
                       language |-> Get(params, "language", "python"), prompt |-> prompt],
                      system_prompt, env.gen)
    IN IF prompt = ""
       THEN Ok(Fail("Code prompt is required"), f, <<>>, <<>>, HistoryOf(params))
       ELSE IF g.result.success
       THEN Ok(Dict([success |-> TRUE, message |-> "Code generated successfully"]),
               f, <<>>, <<g.call>>, HistoryOf(params))
       ELSE Ok(Fail(g.result.error), f, <<>>, <<g.call, g.call>>, HistoryOf(params))

_generate_code(params, f, now, env) ==
    LET prompt == Get(params, "prompt", "")
        language == Get(params, "language", "python")
    IN IF prompt = ""
       THEN Ok(Fail("Code prompt is required"), f, <<>>, <<>>, HistoryOf(params))
       ELSE LET enhanced_prompt == [template |-> "Generate {language} code for: {prompt}",
                                    language |-> language, prompt |-> prompt]
                g == generate(enhanced_prompt, system_prompt, env.gen)
            IN IF g.result.success
               THEN Ok(Dict([success |-> TRUE,
                             data |-> Dict([code |-> g.result.response,
                                            language |-> language, prompt |-> prompt]),
                             message |-> "Code generated successfully"]),
                       f, <<>>, <<g.call>>, HistoryOf(params))
               ELSE Ok(Fail(g.result.error), f, <<>>, <<g.call>>, HistoryOf(params))

\* the current message appended to the caller's own list
BuildConversationInPlace(hist, message) ==
    [messages |-> [i \in 1..Len(hist) |->
                      [role |-> Get(hist[i].val, "role", "user"),
                       content |-> Get(hist[i].val, "content", "")]]
                  \o <<[role |-> "user", content |-> message]>>,
     history |-> Append(hist, Dict([role |-> "user", content |-> message]))]

\* the list messages the handler builds from the history and the current
\* message, and the caller's history list afterwards
BuildConversation(hist, message) ==
    [messages |-> [i \in 1..Len(hist) |->
                      [role |-> Get(hist[i].val, "role", "user"),
                       content |-> Get(hist[i].val, "content", "")]]
                  \o <<[role |-> "user", content |-> message]>>,
     history |-> hist]

\* the handler once the message is known to be there
Converse(params, f, now, env) ==
    LET message == Get(params, "message", "")
        hist == HistoryOf(params)
    IN IF \E i \in 1..Len(hist) : hist[i].type # "dict"
       THEN LET bad == CHOOSE i \in 1..Len(hist) :
                            /\ hist[i].type # "dict"
                            /\ \A j \in 1..(i - 1) : hist[j].type = "dict"
            IN Raise(AttributeError(hist[bad].type), f, <<>>, <<>>, hist)
       ELSE LET conv == BuildConversation(hist, message)
                c == chat(conv.messages, system_prompt, env.chat)
            IN IF c.result.success
               THEN IF c.result.message.type # "dict"
                    THEN Raise(AttributeError(c.result.message.type), f, <<>>, <<c.call>>,
                               conv.history)
                    ELSE Ok(Dict([success |-> TRUE,
                                  data |-> Dict([response |-> Get(c.result.message.val, "content", ""),
                                                 role |-> "assistant"]),
                                  message |-> "Chat response generated"]),
                            f, <<>>, <<c.call>>, conv.history)
               ELSE Ok(Fail(c.result.error), f, <<>>, <<c.call>>, conv.history)

\* the handler without its check of the message
ChatUnvalidated(params, f, now, env) == Converse(params, f, now, env)

_chat(params, f, now, env) ==
    IF Get(params, "message", "") = ""
    THEN Ok(Fail("Message is required"), f, <<>>, <<>>, HistoryOf(params))
    ELSE Converse(params, f, now, env)

\* a non-empty code parameter used as it is, the file read only without one
AnalyzeCodeParamFirst(params, f, now, env) ==
    IF Get(params, "code", <<>>) # <<>>
    THEN _generate_code([prompt |-> "analyze"], f, now, env)
    ELSE LET file_path == Get(params, "file_path", <<>>)
             file_result == read_file(f, file_path, env)
         IN IF file_path # <<>> /\ ~file_result.val.success
            THEN Ok(file_result, f, <<"read_file">>, <<>>, HistoryOf(params))
            ELSE Ok(Fail("Code or file path is required"), f, <<>>, <<>>, HistoryOf(params))

_analyze_code(params, f, now, env) ==
    LET file_path == Get(params, "file_path", <<>>)
        file_result == read_file(f, file_path, env)
        ops == IF file_path # <<>> THEN <<"read_file">> ELSE <<>>
    IN IF file_path # <<>> /\ ~file_result.val.success
       THEN Ok(file_result, f, ops, <<>>, HistoryOf(params))
       ELSE LET code == IF file_path # <<>> THEN file_result.val.content
                        ELSE Get(params, "code", <<>>)
            IN IF code = <<>>
               THEN Ok(Fail("Code or file path is required"), f, ops, <<>>, HistoryOf(params))
               ELSE LET prompt == [template |-> "Analyze this code for potential issues: {code}",
                                   code |-> code]
                        g == generate(prompt, system_prompt, env.gen)
                    IN IF g.result.success
                       THEN Ok(Dict([success |-> TRUE,
                                     data |-> Dict([analysis |-> g.result.response,
                                                    code_length |-> Len(code)]),
                                     message |-> "Code analysis completed"]),
                               f, ops, <<g.call>>, HistoryOf(params))
                       ELSE Ok(Fail(g.result.error), f, ops, <<g.call>>, HistoryOf(params))

key_files == << <<"README.md">>, <<"requirements.txt">>, <<"src", "main.py">> >>

RECURSIVE ReadKeyFilesUntilFailure(_, _, _, _)
\* the key files read up to the first one that could not be read
ReadKeyFilesUntilFailure(f, project_name, i, env) ==
    IF i > Len(key_files) THEN <<>>
    ELSE LET file_result == read_file(f, <<project_name>> \o key_files[i], env)
         IN IF file_result.val.success
            THEN <<[file |-> RelStr(key_files[i]), content |-> file_result.val.content]>>
                 \o ReadKeyFilesUntilFailure(f, project_name, i + 1, env)
            ELSE <<>>

RECURSIVE ReadKeyFiles(_, _, _, _)
\* project_info["files"]: the key files that could be read, in order
ReadKeyFiles(f, project_name, i, env) ==
    IF i > Len(key_files) THEN <<>>
    ELSE LET file_result == read_file(f, <<project_name>> \o key_files[i], env)
         IN (IF file_result.val.success
             THEN <<[file |-> RelStr(key_files[i]), content |-> file_result.val.content]>>
             ELSE <<>>)
            \o ReadKeyFiles(f, project_name, i + 1, env)

\* the handler going on to the key files and the backend without looking
\* the project up
SuggestWithoutLookup(params, f, now, env) ==
    LET project_name == Get(params, "project", "")
        files == ReadKeyFiles(f, project_name, 1, env)
        prompt == [template |-> "Analyze this project and suggest improvements",
                   project |-> project_name, type |-> "unknown", files |-> files]
        g == generate(prompt, system_prompt, env.gen)
    IN IF project_name = ""
       THEN Ok(Fail("Project name is required"), f, <<>>, <<>>, HistoryOf(params))
       ELSE Ok(IF g.result.success
               THEN Dict([success |-> TRUE, message |-> "Project analysis completed"])
               ELSE Fail(g.result.error),
               f, <<"list_projects", "read_file", "read_file", "read_file">>, <<g.call>>,
               HistoryOf(params))

_suggest_improvements(params, f, now, env) ==
    LET project_name == Get(params, "project", "")
        projects == list_projects(f)
        found == {i \in 1..Len(projects) : projects[i].name = project_name}
    IN IF project_name = ""
       THEN Ok(Fail("Project name is required"), f, <<>>, <<>>, HistoryOf(params))
       ELSE IF found = {}
       THEN Ok(Fail("Project '" \o project_name \o "' not found"), f,
               <<"list_projects">>, <<>>, HistoryOf(params))
       ELSE LET project == projects[CHOOSE i \in found : \A j \in found : i <= j]
                files == ReadKeyFiles(f, project_name, 1, env)
                ops == <<"list_projects", "read_file", "read_file", "read_file">>
                prompt == [template |-> "Analyze this project and suggest improvements",
                           project |-> project_name, type |-> project.type, files |-> files]
                g == generate(prompt, system_prompt, env.gen)
            IN IF g.result.success
               THEN Ok(Dict([success |-> TRUE,
                             data |-> Dict([suggestions |-> g.result.response,
                                            project |-> project_name,
                                            analyzed_files |-> [i \in 1..Len(files) |-> files[i].file]]),
                             message |-> "Project analysis completed"]),
                       f, ops, <<g.call>>, HistoryOf(params))
               ELSE Ok(Fail(g.result.error), f, ops, <<g.call>>, HistoryOf(params))

\* self.tools[request.action](request.parameters)
CallTool(action, params, f, now, env) ==
    CASE action = "create_project" -> _create_project(params, f, now, env)
      [] action = "list_projects" -> _list_projects(params, f, now, env)
      [] action = "generate_code" -> _generate_code(params, f, now, env)
      [] action = "read_file" -> _read_file(params, f, now, env)
      [] action = "write_file" -> _write_file(params, f, now, env)
      [] action = "run_command" -> _run_command(params, f, now, env)
      [] action = "chat" -> _chat(params, f, now, env)
      [] action = "analyze_code" -> _analyze_code(params, f, now, env)
      [] action = "suggest_improvements" -> _suggest_improvements(params, f, now, env)

-----------------------------------------------------------------------------
(* LocalDevAssistantMCP.process_request *)

Response(success, data, message, error) ==
    [success |-> success, data |-> data, message |-> message, error |-> error]

\* every dict taken for a structured result, success defaulting to False
NormalizeAnyDict(result) ==
    IF result.type = "dict"
    THEN Response(Get(result.val, "success", FALSE), GetOpt(result.val, "data"),
                  Get(result.val, "message", ""), GetOpt(result.val, "error"))
    ELSE Response(TRUE, Some(result), "Action completed successfully", None)

\* the handler's return value as an MCPResponse
Normalize(result) ==
    IF result.type = "dict" /\ "success" \in DOMAIN result.val
    THEN Response(result.val.success, GetOpt(result.val, "data"),
                  Get(result.val, "message", ""), GetOpt(result.val, "error"))
    ELSE Response(TRUE, Some(result), "Action completed successfully", None)

UnknownAction(action) ==
    "Unknown action: " \o action \o ". Available actions: [" \o ListRepr(ToolNames)

\* traceback.format_exc(): the frames are left out
Traceback(exc) == "Traceback (most recent call last): " \o exc.type \o ": " \o exc.msg

\* an except clause that names the exceptions it expects
CaughtNarrow(exc) == exc.type \in {"KeyError", "ValueError"}

\* the except clause: the exceptions it turns into a response
Caught(exc) == TRUE

ExceptionResponse(exc) ==
    Response(FALSE, None, Traceback(exc), Some("Error processing request: " \o exc.msg))

NoResponse == Response(FALSE, None, "", None)

\* no handler has returned
NoReturn == [type |-> "no return"]

\* the gate forgetting the two actions that read the workspace first
GatedGeneratorsOnly(action) == action \in {"generate_code", "chat"}

\* the gate closing on everything that is not a plain store action
GatedUnlessStore(action) ==
    action \notin {"create_project", "list_projects", "read_file", "write_file", "run_command"}

\* the gate closing on every action of the table
GatedEveryAction(action) == \E i \in 1..Len(ToolNames) : ToolNames[i] = action

\* the gate: whether the availability probe is made for this action
Gated(action) == action \in ai_actions

\* the except clause
Except(exc) == IF Caught(exc) THEN ExceptionResponse(exc) ELSE NoResponse

\* process_request returning without having invoked a handler
Quiet(response, request, f, probed, exc) ==
    [resp |-> response, fs |-> f, probes |-> probed, backendCalls |-> <<>>,
     storeOps |-> <<>>, invoked |-> "none", history |-> HistoryOf(request.parameters),
     raised |-> exc, escaped |-> exc # NoExc /\ ~Caught(exc), returned |-> NoReturn]

\* process_request once the handler has run: out is the handler's outcome
Ran(out, request, probed) ==
    [resp |-> IF out.raised THEN Except(out.exc) ELSE Normalize(out.result),
     fs |-> out.fs, probes |-> probed, backendCalls |-> out.backendCalls,
     storeOps |-> out.storeOps, invoked |-> request.action, history |-> out.history,
     raised |-> out.exc, escaped |-> out.raised /\ ~Caught(out.exc),
     returned |-> IF out.raised THEN NoReturn ELSE out.result]

\* process_request after the gate: avail is what is_available gave
Dispatch(avail, request, f, now, env, probed) ==
    IF avail.raised
    THEN Quiet(Except(avail.exc), request, f, probed, avail.exc)
    ELSE IF ~avail.value
    THEN Quiet(Response(FALSE, None, "", Some(Unavailable)), request, f, probed, NoExc)
    ELSE IF \E i \in 1..Len(ToolNames) : ToolNames[i] = request.action
    THEN Ran(CallTool(request.action, request.parameters, f, now, env), request, probed)
    ELSE Quiet(Response(FALSE, None, "", Some(UnknownAction(request.action))),
               request, f, probed, NoExc)

Available == [raised |-> FALSE, exc |-> NoExc, value |-> TRUE]

process_request(request, f, now, env) ==
    IF Gated(request.action)
    THEN Dispatch(is_available(env.probe), request, f, now, env, <<env.probe>>)
    ELSE Dispatch(Available, request, f, now, env, <<>>)

-----------------------------------------------------------------------------
(* The inputs the requests are drawn from *)

Names == {"p", "q"}
Types == {"python", "web", "ml", "basic"}
Chars == {"h", "\r", "\n"}
Texts == {<<>>, <<"h">>, <<"h", "\r">>, <<"h", "\r", "\n">>, <<"\n", "h">>}
Paths == {<<"a", "b.txt">>, <<"p", "README.md">>}

\* the sets of files whose read fails though they exist
Unreadables ==
    {{}, {<<"p", "README.md">>},
     {<<"p", "requirements.txt">>, <<"p", "src", "main.py">>},
     {<<"p", "README.md">>, <<"p", "requirements.txt">>, <<"p", "src", "main.py">>}}

\* the value of a parameter: any of S when the key is present
Opt(key, present, S) == IF key \in present THEN S ELSE {CHOOSE v \in S : TRUE}

ProbeReplies ==
    {[status |-> 0, body |-> EmptyDict, text |-> "Connection refused"],
     [status |-> 500, body |-> EmptyDict, text |-> "Internal Server Error"],
     [status |-> 200, body |-> [models |-> <<Dict([name |-> "llama3.2:latest"])>>], text |-> ""],
     [status |-> 200, body |-> [models |-> <<Dict([name |-> "mistral:7b"])>>], text |-> ""],
     [status |-> 200, body |-> [models |-> <<Str("llama3.2:latest")>>], text |-> ""]}

GenReplies ==
    {[status |-> 0, body |-> EmptyDict, text |-> "Read timed out"],
     [status |-> 500, body |-> EmptyDict, text |-> "model not loaded"],
     [status |-> 200, body |-> [response |-> "generated text", model |-> ModelName, done |-> TRUE], text |-> ""],
     [status |-> 200, body |-> EmptyDict, text |-> ""]}

ChatReplies ==
    {[status |-> 0, body |-> EmptyDict, text |-> "Read timed out"],
     [status |-> 500, body |-> EmptyDict, text |-> "model not loaded"],
     [status |-> 200, body |-> [message |-> Dict([role |-> "assistant", content |-> "an answer"])], text |-> ""],
     [status |-> 200, body |-> [message |-> Dict([role |-> "assistant"])], text |-> ""],
     [status |-> 200, body |-> EmptyDict, text |-> ""],
     [status |-> 200, body |-> [message |-> Str("an answer")], text |-> ""]}

HistEntries ==
    {Dict([role |-> "user", content |-> "a question"]),
     Dict([role |-> "assistant"]),
     Str("a question")}

Histories == SeqOf(HistEntries, MaxHist)

CalmEnv ==
    [probe |-> CHOOSE r \in ProbeReplies : is_available(r).value,
     gen |-> CHOOSE r \in GenReplies : r.status = 200,
     chat |-> CHOOSE r \in ChatReplies : r.status = 200,
     fault |-> "none", failAt |-> 0, unreadable |-> {}, git |-> TRUE, run |-> "exit0"]

-----------------------------------------------------------------------------
(* The gateway serving requests one at a time: process_request runs to    *)
(* completion and the front end takes the response before it sends the    *)
(* next request.                                                           *)

\* the replies the backend may give to the generate or chat call of a
\* request: the call is made only after a probe that reported the backend
\* available, so after any other probe the reply is never looked at
RepliesAfter(probe, replies, calm) ==
    IF ~is_available(probe).raised /\ is_available(probe).value THEN replies ELSE {calm}

NoRequest == [action |-> "", parameters |-> EmptyDict]

NoStoreCall == [op |-> "none"]

NoCallers == <<>>

Serve(action, params, env) ==
    \E out \in {process_request([action |-> action, parameters |-> params], fs, clock + 1, env)} :
       /\ out.fs # fs => clock < MaxClock
       /\ fs' = out.fs
       /\ clock' = IF out.fs # fs THEN clock + 1 ELSE clock
       /\ served' = TRUE
       /\ req' = [action |-> action, parameters |-> params]
       /\ resp' = out.resp
       /\ backend' = env.probe
       /\ probes' = out.probes
       /\ backendCalls' = out.backendCalls
       /\ storeOps' = out.storeOps
       /\ invoked' = out.invoked
       /\ history' = out.history
       /\ raised' = out.raised
       /\ escaped' = out.escaped
       /\ returned' = out.returned
       /\ environment' = env
       /\ UNCHANGED <<cli, exchanges, callers, storeCall, written>>

CreateProject ==
    \E present \in SUBSET {"name", "type"} :
    \E name \in Opt("name", present, {"", "p"}), type \in Opt("type", present, {"python", "basic"}),
       git \in BOOLEAN, fault \in {"none", "mkdir", "write"} :
        /\ ~served
        /\ Serve("create_project",
              [k \in present |-> IF k = "name" THEN name ELSE type],
              [CalmEnv EXCEPT !.git = git, !.fault = fault, !.failAt = 3])

ListProjects ==
    /\ ~served
    /\ Serve("list_projects", EmptyDict, CalmEnv)

ReadFile ==
    \E present \in SUBSET {"path"} :
    \E path \in Opt("path", present, Paths \cup {<<>>}), unreadable \in {{}, Paths} :
        /\ ~served
        /\ Serve("read_file", [k \in present |-> path],
              [CalmEnv EXCEPT !.unreadable = unreadable])

WriteFile ==
    \E present \in SUBSET {"path", "content"} :
    \E path \in Opt("path", present, Paths \cup {<<>>}),
       content \in Opt("content", present, {<<>>, <<"h">>}),
       fault \in {"none", "write"} :
        /\ ~served
        /\ Serve("write_file",
              [k \in present |-> IF k = "path" THEN path ELSE content],
              [CalmEnv EXCEPT !.fault = fault])

RunCommand ==
    \E present \in SUBSET {"command", "cwd"} :
    \E command \in Opt("command", present, {"", "ls"}),
       run \in {"exit0", "exit1", "timeout", "oserror"} :
        /\ ~served
        /\ Serve("run_command",
              [k \in present |-> IF k = "command" THEN command ELSE "p"],
              [CalmEnv EXCEPT !.run = run])

GenerateCode ==
    \E present \in SUBSET {"prompt", "language"} :
    \E prompt \in Opt("prompt", present, {"", "sort a list"}),
       probe \in ProbeReplies :
    \E gen \in RepliesAfter(probe, GenReplies, CalmEnv.gen) :
        /\ ~served
        /\ Serve("generate_code",
              [k \in present |-> IF k = "prompt" THEN prompt ELSE "go"],
              [CalmEnv EXCEPT !.probe = probe, !.gen = gen])

Chat ==
    \E present \in SUBSET {"message", "history"} :
    \E message \in Opt("message", present, {"", "hello"}),
       hist \in Opt("history", present, Histories),
       probe \in ProbeReplies :
    \E reply \in RepliesAfter(probe, ChatReplies, CalmEnv.chat) :
        /\ ~served
        /\ Serve("chat",
              [k \in present |-> IF k = "message" THEN message ELSE hist],
              [CalmEnv EXCEPT !.probe = probe, !.chat = reply])

AnalyzeCode ==
    \E present \in SUBSET {"code", "file_path"} :
    \E code \in Opt("code", present, {<<>>, <<"h">>}),
       path \in Opt("file_path", present, Paths \cup {<<>>}),
       unreadable \in {{}, Paths}, probe \in ProbeReplies :
    \E gen \in RepliesAfter(probe, GenReplies, CalmEnv.gen) :
        /\ ~served
        /\ Serve("analyze_code",
              [k \in present |-> IF k = "code" THEN code ELSE path],
              [CalmEnv EXCEPT !.probe = probe, !.gen = gen, !.unreadable = unreadable])

SuggestImprovements ==
    \E present \in SUBSET {"project"} :
    \E project \in Opt("project", present, {"", "p", "a", "q"}),
       unreadable \in Unreadables, probe \in ProbeReplies :
    \E gen \in RepliesAfter(probe, GenReplies, CalmEnv.gen) :
        /\ ~served
        /\ Serve("suggest_improvements", [k \in present |-> project],
              [CalmEnv EXCEPT !.probe = probe, !.gen = gen, !.unreadable = unreadable])

UnknownRequest ==
    \E action \in {"", "delete_project"}, probe \in ProbeReplies :
        /\ ~served
        /\ Serve(action, EmptyDict, [CalmEnv EXCEPT !.probe = probe])

\* the front end has the response (prints it, or sends it as the HTTP reply)
TakeResponse ==
    /\ served
    /\ served' = FALSE
    /\ req' = NoRequest
    /\ resp' = NoResponse
    /\ backend' = CalmEnv.probe
    /\ probes' = <<>>
    /\ backendCalls' = <<>>
    /\ storeOps' = <<>>
    /\ invoked' = "none"
    /\ history' = <<>>
    /\ raised' = NoExc
    /\ escaped' = FALSE
    /\ returned' = NoReturn
    /\ environment' = CalmEnv
    /\ UNCHANGED <<cli, exchanges, fs, clock, callers, storeCall, written>>

Init ==
    /\ fs = EmptyFs
    /\ clock = 0
    /\ served = FALSE
    /\ req = NoRequest
    /\ resp = NoResponse
    /\ backend = CalmEnv.probe
    /\ probes = <<>>
    /\ backendCalls = <<>>
    /\ storeOps = <<>>
    /\ invoked = "none"
    /\ history = <<>>
    /\ raised = NoExc
    /\ escaped = FALSE
    /\ returned = NoReturn
    /\ environment = CalmEnv
    /\ callers = NoCallers
    /\ storeCall = NoStoreCall
    /\ written = <<>>
    /\ cli = [pc |-> "input", history |-> <<>>]
    /\ exchanges = <<>>

Next ==
    \/ CreateProject
    \/ ListProjects
    \/ ReadFile
    \/ WriteFile
    \/ RunCommand
    \/ GenerateCode
    \/ Chat
    \/ AnalyzeCode
    \/ SuggestImprovements
    \/ UnknownRequest
    \/ TakeResponse

Spec == Init /\ [][Next]_vars

-----------------------------------------------------------------------------
(* process_request for any value a handler of the table may return: the   *)
(* handler is a stub that touches nothing and returns the value.          *)

Handled(result) ==
    \E out \in {Ran(Ok(result, fs, <<>>, <<>>, <<>>),
                    [action |-> "list_projects", parameters |-> EmptyDict], <<>>)} :
       /\ served' = TRUE
       /\ req' = [action |-> "list_projects", parameters |-> EmptyDict]
       /\ resp' = out.resp
       /\ backend' = CalmEnv.probe
       /\ probes' = out.probes
       /\ backendCalls' = out.backendCalls
       /\ storeOps' = out.storeOps
       /\ invoked' = out.invoked
       /\ history' = out.history
       /\ raised' = out.raised
       /\ escaped' = out.escaped
       /\ returned' = out.returned
       /\ environment' = CalmEnv
       /\ UNCHANGED <<cli, exchanges, fs, clock, callers, storeCall, written>>

\* the handler returns a dict
ReturnDict ==
    \E present \in SUBSET {"success", "data", "message", "error", "path"} :
    \E success \in Opt("success", present, BOOLEAN),
       data \in Opt("data", present, {Dict([code |-> "x"]), List(<<>>)}),
       message \in Opt("message", present, {"", "done"}) :
        /\ ~served
        /\ Handled(Dict([k \in present |->
                            CASE k = "success" -> success
                              [] k = "data" -> data
                              [] k = "message" -> message
                              [] k = "error" -> "it failed"
                              [] k = "path" -> "/workspace/p"]))

\* the handler returns something that is not a dict
ReturnOther ==
    \E result \in {List(<<>>), List(<<"p">>), Str("text"), None} :
        /\ ~served
        /\ Handled(result)

NextNormalize ==
    \/ ReturnDict
    \/ ReturnOther
    \/ TakeResponse

SpecNormalize == Init /\ [][NextNormalize]_vars

-----------------------------------------------------------------------------
(* The chat loop of the command line: it reads a line, leaves on a word   *)
(* of farewell, skips an empty line, and otherwise sends the line with    *)
(* its history to the gateway and records the exchange when it succeeded. *)

MaxExchanges == 11

HistoryCap == 20

RawInputs == {"", " ", "quit", "Exit", "hello"}

\* str.strip and str.lower on the lines drawn
Strip(s) == IF s = " " THEN "" ELSE s
Lower(s) == IF s = "Exit" THEN "exit" ELSE s

\* the list no longer than the last HistoryCap entries
TrimOldestKept(hist) ==
    IF Len(hist) > HistoryCap THEN SubSeq(hist, 1, HistoryCap) ELSE hist

Trim(hist) ==
    IF Len(hist) > HistoryCap
    THEN SubSeq(hist, Len(hist) - HistoryCap + 1, Len(hist))
    ELSE hist

\* the loop's history after the response to user_input
Updated(hist, user_input, response) ==
    IF response.success
    THEN Trim(hist \o <<Dict([role |-> "user", content |-> user_input]),
                        Dict([role |-> "assistant",
                              content |-> response.data.val.val.response])>>)
    ELSE hist

CliExit ==
    \E line \in RawInputs :
        /\ cli.pc = "input"
        /\ Lower(Strip(line)) \in {"exit", "quit", "bye"}
        /\ cli' = [cli EXCEPT !.pc = "exited"]
        /\ UNCHANGED <<fs, clock, gatewayVars, callers, storeCall, written, exchanges>>

CliInterrupt ==
    /\ cli.pc = "input"
    /\ cli' = [cli EXCEPT !.pc = "exited"]
    /\ UNCHANGED <<fs, clock, gatewayVars, callers, storeCall, written, exchanges>>

CliEmpty ==
    \E line \in RawInputs :
        /\ cli.pc = "input"
        /\ Lower(Strip(line)) \notin {"exit", "quit", "bye"}
        /\ Strip(line) = ""
        /\ UNCHANGED vars

CliSay ==
    \E line \in RawInputs, probe \in ProbeReplies :
    \E reply \in RepliesAfter(probe, ChatReplies, CalmEnv.chat) :
        /\ cli.pc = "input"
        /\ Len(exchanges) < MaxExchanges
        /\ Lower(Strip(line)) \notin {"exit", "quit", "bye"}
        /\ Strip(line) # ""
        /\ \E out \in {process_request(
                          [action |-> "chat",
                           parameters |-> [message |-> Strip(line), history |-> cli.history]],
                          fs, clock + 1, [CalmEnv EXCEPT !.probe = probe, !.chat = reply])} :
              /\ served' = TRUE
              /\ req' = [action |-> "chat",
                         parameters |-> [message |-> Strip(line), history |-> cli.history]]
              /\ resp' = out.resp
              /\ backend' = probe
              /\ probes' = out.probes
              /\ backendCalls' = out.backendCalls
              /\ storeOps' = out.storeOps
              /\ invoked' = out.invoked
              /\ history' = out.history
              /\ raised' = out.raised
              /\ escaped' = out.escaped
              /\ returned' = out.returned
              /\ environment' = [CalmEnv EXCEPT !.probe = probe, !.chat = reply]
              /\ cli' = [cli EXCEPT !.history = Updated(out.history, Strip(line), out.resp)]
              /\ exchanges' = IF out.resp.success
                              THEN Append(exchanges,
                                          [user |-> Strip(line),
                                           assistant |-> out.resp.data.val.val.response])
                              ELSE exchanges
              /\ UNCHANGED <<fs, clock, callers, storeCall, written>>

NextCli ==
    \/ CliExit
    \/ CliInterrupt
    \/ CliEmpty
    \/ CliSay

SpecCli == Init /\ [][NextCli]_vars

-----------------------------------------------------------------------------
(* The five actions that need no backend, served whatever the backend     *)
(* would answer to a probe.                                                *)

CreateProjectAnyBackend ==
    \E name \in {"", "p"}, type \in {"python", "basic"}, fault \in {"none", "write"},
       probe \in ProbeReplies :
        /\ ~served
        /\ Serve("create_project", [name |-> name, type |-> type],
              [CalmEnv EXCEPT !.probe = probe, !.fault = fault, !.failAt = 3])

ListProjectsAnyBackend ==
    \E probe \in ProbeReplies :
        /\ ~served
        /\ Serve("list_projects", EmptyDict, [CalmEnv EXCEPT !.probe = probe])

ReadFileAnyBackend ==
    \E path \in Paths \cup {<<>>}, unreadable \in {{}, Paths}, probe \in ProbeReplies :
        /\ ~served
        /\ Serve("read_file", [path |-> path],
              [CalmEnv EXCEPT !.probe = probe, !.unreadable = unreadable])

WriteFileAnyBackend ==
    \E path \in Paths \cup {<<>>}, content \in {<<>>, <<"h">>}, fault \in {"none", "write"},
       probe \in ProbeReplies :
        /\ ~served
        /\ Serve("write_file", [path |-> path, content |-> content],
              [CalmEnv EXCEPT !.probe = probe, !.fault = fault])

RunCommandAnyBackend ==
    \E command \in {"", "ls"}, run \in {"exit0", "exit1", "timeout", "oserror"},
       probe \in ProbeReplies :
        /\ ~served
        /\ Serve("run_command", [command |-> command],
              [CalmEnv EXCEPT !.probe = probe, !.run = run])

NextAnyBackend ==
    \/ CreateProjectAnyBackend
    \/ ListProjectsAnyBackend
    \/ ReadFileAnyBackend
    \/ WriteFileAnyBackend
    \/ RunCommandAnyBackend
    \/ TakeResponse

SpecAnyBackend == Init /\ [][NextAnyBackend]_vars

-----------------------------------------------------------------------------
(* FileSystemTools called directly, one call at a time.  storeCall is the  *)
(* last call with its result, written[p] the content the last successful  *)
(* write_file gave for p.                                                  *)

StoreCreate ==
    \E project_name \in Names, project_type \in Types \cup {"rust"},
       fault \in {"none", "mkdir", "write"} :
    \E env \in {[CalmEnv EXCEPT !.fault = fault, !.failAt = 2]} :
       /\ storeCall = NoStoreCall
       /\ \E out \in {create_project(fs, project_name, project_type, clock + 1, env)} :
             /\ out.fs # fs => clock < MaxClock
             /\ fs' = out.fs
             /\ clock' = IF out.fs # fs THEN clock + 1 ELSE clock
             /\ storeCall' = [op |-> "create_project", name |-> project_name, type |-> project_type,
                              env |-> env, result |-> out.result]
             /\ UNCHANGED <<cli, exchanges, written, callers, gatewayVars>>

StoreList ==
    /\ storeCall = NoStoreCall
    /\ storeCall' = [op |-> "list_projects", result |-> List(list_projects(fs))]
    /\ UNCHANGED <<cli, exchanges, fs, clock, written, callers, gatewayVars>>

StoreRead ==
    \E file_path \in Paths \cup {<<"a">>}, unreadable \in {{}, Paths} :
    \E env \in {[CalmEnv EXCEPT !.unreadable = unreadable]} :
       /\ storeCall = NoStoreCall
       /\ storeCall' = [op |-> "read_file", path |-> file_path, env |-> env,
                        result |-> read_file(fs, file_path, env)]
       /\ UNCHANGED <<cli, exchanges, fs, clock, written, callers, gatewayVars>>

StoreWrite ==
    \E file_path \in Paths \cup {<<"a">>}, content \in Texts, fault \in {"none", "write"} :
    \E env \in {[CalmEnv EXCEPT !.fault = fault]} :
       /\ storeCall = NoStoreCall
       /\ \E out \in {write_file(fs, file_path, content, clock + 1, env)} :
             /\ out.fs # fs => clock < MaxClock
             /\ fs' = out.fs
             /\ clock' = IF out.fs # fs THEN clock + 1 ELSE clock
             /\ storeCall' = [op |-> "write_file", path |-> file_path, content |-> content,
                              env |-> env, result |-> out.result, before |-> fs]
             /\ written' = IF out.result.val.success
                           THEN [q \in DOMAIN written \cup {file_path} |->
                                    IF q = file_path THEN content ELSE written[q]]
                           ELSE written
             /\ UNCHANGED <<cli, exchanges, callers, gatewayVars>>

\* the caller has the result
StoreReturn ==
    /\ storeCall # NoStoreCall
    /\ storeCall' = NoStoreCall
    /\ UNCHANGED <<cli, exchanges, fs, clock, written, callers, gatewayVars>>

NextStore ==
    \/ StoreReturn
    \/ StoreCreate
    \/ StoreList
    \/ StoreRead
    \/ StoreWrite

SpecStore == Init /\ [][NextStore]_vars

-----------------------------------------------------------------------------
(* Two callers in create_project for the same name at once, with no lock: *)
(* two processes over one workspace directory.  A step is one operation   *)
(* on the file system: the exists test, the mkdir of the project          *)
(* directory, the write of one file of the template, git init and return. *)

RaceCallers == {"c1", "c2"}

RaceName == "p"

Start(project_type, git, fault) ==
    [pc |-> "check", type |-> project_type, git |-> git, fault |-> fault,
     i |-> 1, files |-> <<>>, made |-> FALSE, wrote |-> {}, result |-> None]

CallerEnv(c) ==
    [CalmEnv EXCEPT !.git = callers[c].git, !.fault = callers[c].fault, !.failAt = 2]

\* if project_path.exists(): return the failure
RaceCheck ==
    \E c \in RaceCallers :
       /\ callers[c].pc = "check"
       /\ callers' = [callers EXCEPT ![c] =
             IF Exists(fs, <<RaceName>>)
             THEN [@ EXCEPT !.pc = "done",
                            !.result = Dict([success |-> FALSE,
                                             message |-> AlreadyExists(RaceName)])]
             ELSE [@ EXCEPT !.pc = "mkdir"]]
       /\ UNCHANGED <<cli, exchanges, fs, clock, storeCall, written, gatewayVars>>

\* project_path.mkdir(parents=True)
RaceMkdir ==
    \E c \in RaceCallers :
       /\ callers[c].pc = "mkdir"
       /\ \E mk \in {IF callers[c].fault = "mkdir"
                      THEN [ok |-> FALSE, exc |-> OsError, fs |-> fs]
                      ELSE MakeProjectDir(fs, RaceName, clock + 1)} :
             /\ fs' = mk.fs
             /\ callers' = [callers EXCEPT ![c] =
                   IF mk.ok
                   THEN [callers[c] EXCEPT !.pc = "write", !.made = TRUE]
                   ELSE [callers[c] EXCEPT
                            !.pc = "done",
                            !.result = Populate(mk, RaceName, callers[c].type, clock + 1,
                                                CallerEnv(c)).result]]
       /\ clock' = clock + 1
       /\ UNCHANGED <<cli, exchanges, storeCall, written, gatewayVars>>

\* the caller after one turn of the loop over the template: w is what
\* writing file i gave
AfterWrite(caller, files, w, now, env) ==
    IF w.ok
    THEN [caller EXCEPT !.pc = IF caller.i = Len(files) THEN "git" ELSE "write",
                        !.i = caller.i + 1,
                        !.files = Append(caller.files, RelStr(files[caller.i][1])),
                        !.wrote = caller.wrote \cup {<<RaceName>> \o files[caller.i][1]}]
    ELSE [caller EXCEPT !.pc = "done",
                        !.result = Created([ok |-> FALSE, exc |-> w.exc, fs |-> w.fs,
                                            files |-> caller.files],
                                           RaceName, caller.type, now, env).result]

\* one turn of the loop over the template
RaceWrite ==
    \E c \in RaceCallers :
       /\ callers[c].pc = "write"
       /\ \E files \in {TemplateFor(callers[c].type, RaceName)} :
          \E w \in {WriteOne(fs, <<RaceName>>, files[callers[c].i], clock + 1,
                             callers[c].fault = "write" /\ callers[c].i = 2)} :
             /\ fs' = w.fs
             /\ callers' = [callers EXCEPT ![c] =
                               AfterWrite(callers[c], files, w, clock + 1, CallerEnv(c))]
       /\ clock' = clock + 1
       /\ UNCHANGED <<cli, exchanges, storeCall, written, gatewayVars>>

\* self._init_git(project_path) and the return of the success
RaceGit ==
    \E c \in RaceCallers :
       /\ callers[c].pc = "git"
       /\ \E out \in {Created([ok |-> TRUE, exc |-> "", fs |-> fs, files |-> callers[c].files],
                              RaceName, callers[c].type, clock + 1, CallerEnv(c))} :
             /\ fs' = out.fs
             /\ callers' = [callers EXCEPT ![c] =
                               [callers[c] EXCEPT !.pc = "done", !.result = out.result]]
       /\ clock' = clock + 1
       /\ UNCHANGED <<cli, exchanges, storeCall, written, gatewayVars>>

InitRace ==
    /\ fs = EmptyFs
    /\ clock = 0
    /\ served = FALSE
    /\ req = NoRequest
    /\ resp = NoResponse
    /\ backend = CalmEnv.probe
    /\ probes = <<>>
    /\ backendCalls = <<>>
    /\ storeOps = <<>>
    /\ invoked = "none"
    /\ history = <<>>
    /\ raised = NoExc
    /\ escaped = FALSE
    /\ returned = NoReturn
    /\ environment = CalmEnv
    /\ callers \in [RaceCallers -> {Start(t, g, x) : t \in {"python", "basic"}, g \in BOOLEAN,
                                                     x \in {"none", "mkdir", "write"}}]
    /\ storeCall = NoStoreCall
    /\ written = <<>>
    /\ cli = [pc |-> "input", history |-> <<>>]
    /\ exchanges = <<>>

NextRace ==
    \/ RaceCheck
    \/ RaceMkdir
    \/ RaceWrite
    \/ RaceGit

SpecRace == InitRace /\ [][NextRace]_vars

-----------------------------------------------------------------------------
(* Properties of the gateway, checked under Spec *)

Param(k, default) == Get(req.parameters, k, default)

BackendUp == ~is_available(backend).raised /\ is_available(backend).value
BackendDown == ~is_available(backend).raised /\ ~is_available(backend).value

UnavailableText == "Ollama is not available. Please ensure it's running with 'ollama serve'."

CatalogText ==
    "['create_project', 'list_projects', 'generate_code', 'read_file', 'write_file', "
    \o "'run_command', 'chat', 'analyze_code', 'suggest_improvements']"

Catalog ==
    {"create_project", "list_projects", "generate_code", "read_file", "write_file",
     "run_command", "chat", "analyze_code", "suggest_improvements"}

\* C1: when the backend's availability probe reports false, a request for
\* generate_code, chat, analyze_code or suggest_improvements returns the
\* fixed unavailability failure and the handler is not invoked: no store
\* operation and no generate/chat call is made.
C1_GateClosesBeforeHandler ==
    (served /\ req.action \in {"generate_code", "chat", "analyze_code", "suggest_improvements"}
            /\ BackendDown)
    => /\ resp = Response(FALSE, None, "", Some(UnavailableText))
       /\ invoked = "none"
       /\ storeOps = <<>>
       /\ backendCalls = <<>>

\* suggest_improvements for a project that exists, the backend down
C1_Witness ==
    /\ served /\ req.action = "suggest_improvements" /\ Param("project", "") = "p"
    /\ IsDir(fs, <<"p">>) /\ IsFile(fs, <<"p", "README.md">>)
    /\ BackendDown
    /\ resp.error = Some(UnavailableText)

\* C2: a request whose action is not in the action table, the empty string
\* included, returns a failure whose error names the action and lists the
\* nine catalog actions in table order, whatever the backend answers, and
\* invokes no handler.
C2_UnknownActionListsCatalog ==
    (served /\ req.action \notin Catalog)
    => /\ resp = Response(FALSE, None, "",
                          Some("Unknown action: " \o req.action \o ". Available actions: "
                               \o CatalogText))
       /\ invoked = "none"
       /\ storeOps = <<>>
       /\ backendCalls = <<>>

\* the empty action while the backend is down
C2_Witness ==
    /\ served /\ req.action = "" /\ BackendDown
    /\ resp.error = Some("Unknown action: . Available actions: " \o CatalogText)

\* C3: every failure response carries a non-null error string, the failures
\* the workspace store reports included.
C3_EveryFailureHasError ==
    (served /\ ~resp.success) => resp.error # None

\* C4: no exception leaves process_request: an exception raised by the
\* availability probe or by the handler becomes a failure response whose
\* error describes the exception and whose message is the trace.
C4_ExceptionsBecomeResponses ==
    served =>
       /\ ~escaped
       /\ raised # NoExc =>
             resp = Response(FALSE, None,
                             "Traceback (most recent call last): " \o raised.type \o ": " \o raised.msg,
                             Some("Error processing request: " \o raised.msg))

\* a chat whose history holds an entry that is not a mapping
C4_Witness ==
    /\ served /\ req.action = "chat" /\ invoked = "chat"
    /\ \E i \in 1..Len(Param("history", <<>>)) : Param("history", <<>>)[i].type # "dict"
    /\ raised.type = "AttributeError"
    /\ ~resp.success

\* C5: a successful create_project of type python returns data with the
\* project path, ending in /<name>, and the list of created files, which
\* holds README.md and src/main.py.
C5_CreateReturnsPathAndFiles ==
    (served /\ req.action = "create_project" /\ Param("name", "") # ""
            /\ Param("type", "python") = "python" /\ resp.success)
    => /\ resp.data # None
       /\ resp.data.val.type = "dict"
       /\ resp.data.val.val.path = PathStr(Workspace) \o "/" \o Param("name", "")
       /\ \E i \in 1..Len(resp.data.val.val.files) : resp.data.val.val.files[i] = "README.md"
       /\ \E i \in 1..Len(resp.data.val.val.files) : resp.data.val.val.files[i] = "src/main.py"

\* C6: create_project for a name whose directory exists fails, reporting
\* that the project already exists, and leaves the workspace as it was.
C6_ExistingProjectUntouched ==
    [][(/\ ~served /\ served'
        /\ req'.action = "create_project"
        /\ Get(req'.parameters, "name", "") # ""
        /\ IsDir(fs, <<Get(req'.parameters, "name", "")>>))
       => /\ ~resp'.success
          /\ resp'.message = "Project '" \o Get(req'.parameters, "name", "")
                             \o "' already exists at /workspace/" \o Get(req'.parameters, "name", "")
          /\ fs' = fs]_vars

\* the project's README.md holds what write_file put there, after a
\* create_project that found the project
C6_Witness ==
    /\ served /\ req.action = "create_project" /\ Param("name", "") = "p"
    /\ resp.message = "Project 'p' already exists at /workspace/p"
    /\ IsFile(fs, <<"p", "src", "main.py">>)
    /\ fs.files[<<"p", "README.md">>] = <<"h">>

\* C9 as stated: a chat with a missing or empty message returns "Message is
\* required" and the backend is not contacted at all.
C9_EmptyMessageNeverContactsBackend ==
    (served /\ req.action = "chat" /\ Param("message", "") = "")
    => /\ resp = Response(FALSE, None, "", Some("Message is required"))
       /\ probes = <<>>
       /\ backendCalls = <<>>

\* C9 amended: a chat with a missing or empty message makes no generate or
\* chat call; the availability probe is made once, and the response is
\* "Message is required" when the probe reports the backend available, the
\* unavailability failure when it reports it unavailable, and the exception
\* failure when the probe raises.
C9_EmptyMessageMakesNoChatCall ==
    (served /\ req.action = "chat" /\ Param("message", "") = "")
    => /\ backendCalls = <<>>
       /\ probes = <<backend>>
       /\ BackendUp => resp = Response(FALSE, None, "", Some("Message is required"))
       /\ BackendDown => resp = Response(FALSE, None, "", Some(UnavailableText))
       /\ is_available(backend).raised => (~resp.success /\ raised # NoExc)

\* an empty message with a history, the backend up
C9_Witness ==
    /\ served /\ req.action = "chat"
    /\ "message" \in DOMAIN req.parameters /\ req.parameters.message = ""
    /\ Param("history", <<>>) # <<>>
    /\ BackendUp
    /\ resp.error = Some("Message is required")

\* the content of the assistant message in a chat reply
ReportedContent(reply) == Get(Get(reply.body, "message", Dict(EmptyDict)).val, "content", "")

\* C10: a chat with a message and a history of mappings, the backend
\* available, makes one chat call; when that call succeeds with an
\* assistant message the response is success with data.response the
\* reported content and data.role "assistant", and the caller's history
\* list is as it was supplied.
C10_ChatAnswersAndKeepsHistory ==
    (served /\ req.action = "chat" /\ Param("message", "") # "" /\ BackendUp
            /\ \A i \in 1..Len(Param("history", <<>>)) : Param("history", <<>>)[i].type = "dict")
    => /\ Len(backendCalls) = 1
       /\ backendCalls[1].endpoint = "chat"
       /\ history = Param("history", <<>>)
       /\ (/\ backendCalls[1].reply.status = 200
           /\ Get(backendCalls[1].reply.body, "message", Dict(EmptyDict)).type = "dict")
          => resp = Response(TRUE,
                             Some(Dict([response |-> ReportedContent(backendCalls[1].reply),
                                        role |-> "assistant"])),
                             "Chat response generated", None)

\* a chat with a history that got the backend's answer
C10_Witness ==
    /\ served /\ req.action = "chat" /\ Param("message", "") = "hello"
    /\ Len(Param("history", <<>>)) >= 2
    /\ history = Param("history", <<>>)
    /\ resp.success
    /\ resp.data = Some(Dict([response |-> "an answer", role |-> "assistant"]))

-----------------------------------------------------------------------------
(* Properties of the store called directly, checked under SpecStore *)

\* C8: a read_file of p after a successful write_file(p, c), with no write
\* to p in between, returns success with content equal to c and size equal
\* to the length of c; a successful write_file has created the missing
\* parent directories of p and p holds c in place of what it held.
C8_WriteThenReadRoundTrips ==
    /\ (storeCall.op = "read_file" /\ storeCall.path \in DOMAIN written
                                   /\ storeCall.env.unreadable = {})
       => /\ storeCall.result.val.success
          /\ storeCall.result.val.content = written[storeCall.path]
          /\ storeCall.result.val.size = Len(written[storeCall.path])
    /\ (storeCall.op = "write_file" /\ storeCall.result.val.success)
       => /\ IsDir(fs, Parent(storeCall.path))
          /\ IsFile(fs, storeCall.path)
          /\ fs.files[storeCall.path] = storeCall.content

-----------------------------------------------------------------------------
(* Properties of two concurrent create_project calls, checked under       *)
(* SpecRace                                                                *)

AllDone == \A c \in RaceCallers : callers[c].pc = "done"

NoIoFault == \A c \in RaceCallers : callers[c].fault = "none"

Succeeded(c) == callers[c].result # None /\ callers[c].result.val.success

Failed(c) == callers[c].result # None /\ ~callers[c].result.val.success

FilesUnder(project_name) ==
    {q \in DOMAIN fs.files : Len(q) > 1 /\ q[1] = project_name /\ q[2] # ".git"}

\* the project directory holds the files of the caller's template, each
\* with the template's text, and no other file
HoldsTemplateOf(c) ==
    LET files == TemplateFor(callers[c].type, RaceName)
    IN /\ FilesUnder(RaceName) = {<<RaceName>> \o files[i][1] : i \in 1..Len(files)}
       /\ \A i \in 1..Len(files) : fs.files[<<RaceName>> \o files[i][1]] = files[i][2]

\* C7 as stated: when two callers create a project of the same name
\* concurrently, for every interleaving exactly one succeeds, the other
\* receives the "already exists" failure, and the loser writes no file: the
\* project is the winner's alone.
C7_LoserIsToldAlreadyExists ==
    (AllDone /\ NoIoFault)
    => \E w \in RaceCallers : \E l \in RaceCallers \ {w} :
          /\ Succeeded(w)
          /\ Failed(l)
          /\ callers[l].result.val.message = "Project 'p' already exists at /workspace/p"
          /\ callers[l].wrote = {}
          /\ HoldsTemplateOf(w)

\* C7 amended: at most one caller creates the project directory, a caller
\* that did not create it writes no file, and only the caller that created
\* it can succeed; when both calls are over and no mkdir or write failed
\* for want of space, exactly one caller succeeded, the project holds that
\* caller's template and nothing else, and the other's failure is the
\* "already exists" failure or, when it passed the exists test before the
\* winner made the directory, the failure of its mkdir, "Error creating
\* project: [Errno 17] File exists".
C7_DirectoryCreationIsTheGate ==
    /\ Cardinality({c \in RaceCallers : callers[c].made}) <= 1
    /\ \A c \in RaceCallers : ~callers[c].made => callers[c].wrote = {}
    /\ FilesUnder(RaceName) = UNION {callers[c].wrote : c \in RaceCallers}
    /\ \A c \in RaceCallers : Succeeded(c) => callers[c].made
    /\ (AllDone /\ NoIoFault) =>
          \E w \in RaceCallers :
             /\ Succeeded(w)
             /\ HoldsTemplateOf(w)
             /\ \A l \in RaceCallers \ {w} :
                   /\ Failed(l)
                   /\ callers[l].result.val.message \in
                         {"Project 'p' already exists at /workspace/p",
                          "Error creating project: [Errno 17] File exists: '/workspace/p'"}

\* both callers passed the exists test before either made the directory:
\* the loser's mkdir failed, the winner's project is complete
C7_Witness ==
    /\ AllDone /\ NoIoFault
    /\ Succeeded("c2") /\ callers["c2"].type = "python"
    /\ callers["c1"].type = "basic"
    /\ callers["c1"].result.val.message
          = "Error creating project: [Errno 17] File exists: '/workspace/p'"
    /\ callers["c1"].wrote = {}
    /\ HoldsTemplateOf("c2")

-----------------------------------------------------------------------------
(* More properties of the gateway, checked under Spec *)

ProbeRaised == is_available(backend).raised

\* the project names list_projects reports in the workspace
ListedNames == {list_projects(fs)[i].name : i \in 1..Len(list_projects(fs))}

\* C11 as stated: a suggest_improvements request for a project name that
\* list_projects does not report returns the "not found" failure, reads no
\* project file and makes no backend call.
C11_UnlistedProjectIsNotFound ==
    (served /\ req.action = "suggest_improvements" /\ Param("project", "") # ""
            /\ Param("project", "") \notin ListedNames)
    => /\ resp = Response(FALSE, None, "",
                          Some("Project '" \o Param("project", "") \o "' not found"))
       /\ \A i \in 1..Len(storeOps) : storeOps[i] # "read_file"
       /\ backendCalls = <<>>

\* C11 amended: such a request reads no project file and makes no generate
\* or chat call; it returns the "not found" failure when the availability
\* probe, made first, reports the backend available, and the gate's
\* failure, without looking the project up, when it does not.
C11_UnlistedProjectReadsNothing ==
    (served /\ req.action = "suggest_improvements" /\ Param("project", "") # ""
            /\ Param("project", "") \notin ListedNames)
    => /\ \A i \in 1..Len(storeOps) : storeOps[i] # "read_file"
       /\ backendCalls = <<>>
       /\ probes = <<backend>>
       /\ BackendUp => /\ resp = Response(FALSE, None, "",
                                          Some("Project '" \o Param("project", "") \o "' not found"))
                       /\ storeOps = <<"list_projects">>
       /\ BackendDown => /\ resp = Response(FALSE, None, "", Some(UnavailableText))
                         /\ storeOps = <<>>
       /\ ProbeRaised => (~resp.success /\ raised # NoExc /\ storeOps = <<>>)

\* project q asked for while only p is in the workspace, the backend up
C11_Witness ==
    /\ served /\ req.action = "suggest_improvements" /\ Param("project", "") = "q"
    /\ ListedNames = {"p"}
    /\ BackendUp
    /\ resp.error = Some("Project 'q' not found")

\* the action's required parameter is missing or empty
RequiredMissing ==
    \/ req.action \in {"create_project", "suggest_improvements"}
          /\ Get(req.parameters, IF req.action = "create_project" THEN "name" ELSE "project", "") = ""
    \/ req.action \in {"read_file", "write_file"} /\ Param("path", <<>>) = <<>>
    \/ req.action = "run_command" /\ Param("command", "") = ""
    \/ req.action = "generate_code" /\ Param("prompt", "") = ""
    \/ req.action = "chat" /\ Param("message", "") = ""

ValidationText ==
    CASE req.action \in {"create_project", "suggest_improvements"} -> "Project name is required"
      [] req.action \in {"read_file", "write_file"} -> "File path is required"
      [] req.action = "run_command" -> "Command is required"
      [] req.action = "generate_code" -> "Code prompt is required"
      [] req.action = "chat" -> "Message is required"

\* C12 as stated: a request whose required parameter is missing or empty
\* returns the action's validation failure and has no side effect: no
\* store operation, no generate or chat call.
C12_MissingParameterIsValidationError ==
    (served /\ RequiredMissing)
    => /\ resp = Response(FALSE, None, "", Some(ValidationText))
       /\ storeOps = <<>>
       /\ backendCalls = <<>>

\* C12 amended: such a request fails with no store operation and no
\* generate or chat call; the failure is the action's validation error for
\* the four store actions, and for generate_code, chat and
\* suggest_improvements when the availability probe, made first, reports
\* the backend available; when the probe reports it unavailable the
\* failure is the gate's, and when the probe raises, the exception's.
C12_MissingParameterHasNoEffect ==
    (served /\ RequiredMissing)
    => /\ ~resp.success
       /\ storeOps = <<>>
       /\ backendCalls = <<>>
       /\ (req.action \notin {"generate_code", "chat", "suggest_improvements"} \/ BackendUp)
             => resp = Response(FALSE, None, "", Some(ValidationText))
       /\ (req.action \in {"generate_code", "chat", "suggest_improvements"} /\ BackendDown)
             => resp = Response(FALSE, None, "", Some(UnavailableText))
       /\ (req.action \in {"generate_code", "chat", "suggest_improvements"} /\ ProbeRaised)
             => raised # NoExc

\* a run_command with no command given, in a workspace that holds a project
C12_Witness ==
    /\ served /\ req.action = "run_command" /\ "command" \notin DOMAIN req.parameters
    /\ IsDir(fs, <<"p">>)
    /\ resp.error = Some("Command is required")

\* the file a request names can be read
Readable(path) == IsFile(fs, path) /\ path \notin environment.unreadable

\* the request passes the gate and the handler's checks of its parameters:
\* the handler gets as far as the backend call
ReachesBackend ==
    /\ BackendUp
    /\ \/ req.action = "generate_code" /\ Param("prompt", "") # ""
       \/ /\ req.action = "chat" /\ Param("message", "") # ""
          /\ \A i \in 1..Len(Param("history", <<>>)) : Param("history", <<>>)[i].type = "dict"
       \/ /\ req.action = "analyze_code"
          /\ IF Param("file_path", <<>>) # <<>>
             THEN Readable(Param("file_path", <<>>))
                  /\ Decode(fs.files[Param("file_path", <<>>)]) # <<>>
             ELSE Param("code", <<>>) # <<>>
       \/ /\ req.action = "suggest_improvements"
          /\ Param("project", "") # "" /\ Param("project", "") \in ListedNames

\* C13: no retry.  During one process_request the generate or chat
\* endpoint is called at most once: exactly once for an AI-backed action
\* that passes the gate and the handler's validation, never otherwise; and
\* when that one call fails the response is a failure.
C13_BackendCalledAtMostOnce ==
    served =>
       /\ Len(backendCalls) <= 1
       /\ Len(backendCalls) = 1 <=> ReachesBackend
       /\ (Len(backendCalls) = 1 /\ backendCalls[1].reply.status # 200) => ~resp.success

\* a generate_code whose one call timed out
C13_Witness ==
    /\ served /\ req.action = "generate_code" /\ BackendUp
    /\ Len(backendCalls) = 1 /\ backendCalls[1].endpoint = "generate"
    /\ backendCalls[1].reply.status = 0
    /\ ~resp.success

\* C14: for each AI-backed action, when the probe reported the backend
\* available and the generate or chat call then fails (a status other than
\* 200, or a connection error), the response is a failure whose error is
\* the error string the backend client returned, not the unavailability
\* message.
C14_BackendErrorVerbatim ==
    (/\ served
     /\ req.action \in {"generate_code", "chat", "analyze_code", "suggest_improvements"}
     /\ backendCalls # <<>>
     /\ backendCalls[1].reply.status # 200)
    => resp = Response(FALSE, None, "",
                       Some(IF backendCalls[1].reply.status = 0
                            THEN "Connection error: " \o backendCalls[1].reply.text
                            ELSE "HTTP " \o ToString(backendCalls[1].reply.status) \o ": "
                                 \o backendCalls[1].reply.text))

\* the backend answers the probe and then answers an analysis with a 500
C14_Witness ==
    /\ served /\ req.action = "analyze_code" /\ BackendUp
    /\ Len(backendCalls) = 1 /\ backendCalls[1].reply.status = 500
    /\ resp.error = Some("HTTP 500: model not loaded")

-----------------------------------------------------------------------------
(* More properties of the store called directly, checked under SpecStore *)

\* the directories of the workspace that list_projects reports
ProjectDirs(f) == {d \in f.dirs : Len(d) = 1 /\ d[1] \notin {".git", ".hidden"}}

\* C15: list_projects returns the descriptors of the projects sorted by
\* modification time, most recent first.  Every adjacent pair of a
\* returned list has non-increasing modified values and the list names
\* each project once; a project just created comes first in the listing,
\* before every project created earlier, whose descriptors and order are
\* as they were.
C15_ListedMostRecentFirst ==
    [][/\ storeCall'.op = "list_projects" =>
             /\ \A i \in 1..(Len(storeCall'.result.val) - 1) :
                   storeCall'.result.val[i].modified >= storeCall'.result.val[i + 1].modified
             /\ Len(storeCall'.result.val) = Cardinality(ProjectDirs(fs))
             /\ {<<storeCall'.result.val[i].name>> : i \in 1..Len(storeCall'.result.val)}
                   = ProjectDirs(fs)
             /\ \A i \in 1..Len(storeCall'.result.val) :
                   storeCall'.result.val[i].modified
                      = fs.mtime[<<storeCall'.result.val[i].name>>]
       /\ (storeCall'.op = "create_project" /\ storeCall'.result.val.success) =>
             /\ list_projects(fs') # <<>>
             /\ Head(list_projects(fs')).name = storeCall'.name
             /\ Tail(list_projects(fs')) = list_projects(fs)
             /\ \A i \in 1..Len(list_projects(fs)) :
                   Head(list_projects(fs')).modified > list_projects(fs)[i].modified
      ]_vars

\* q was created after p, and the listing has q before p
C15_Witness ==
    /\ storeCall.op = "list_projects"
    /\ Len(storeCall.result.val) = 2
    /\ storeCall.result.val[1].name = "q" /\ storeCall.result.val[2].name = "p"
    /\ storeCall.result.val[1].modified > storeCall.result.val[2].modified
    /\ storeCall.result.val[2].type = "python"

-----------------------------------------------------------------------------
(* Properties of the normalization of results, checked under SpecNormalize *)

\* C16: when the value a handler returned is a mapping with a success
\* key, the response has its success, its data (null when absent), its
\* message (the empty string when absent) and its error (null when absent)
\* and nothing else of it; any other value becomes the data of a success
\* response with the generic completion message.
C16_ResultNormalization ==
    (served /\ returned # NoReturn)
    => /\ DOMAIN resp = {"success", "data", "message", "error"}
       /\ IF returned.type = "dict" /\ "success" \in DOMAIN returned.val
          THEN /\ resp.success = returned.val.success
               /\ resp.data = IF "data" \in DOMAIN returned.val
                              THEN Some(returned.val.data)
                              ELSE None
               /\ resp.message = IF "message" \in DOMAIN returned.val
                                 THEN returned.val.message ELSE ""
               /\ resp.error = IF "error" \in DOMAIN returned.val
                               THEN Some(returned.val.error)
                               ELSE None
          ELSE resp = [success |-> TRUE, data |-> Some(returned),
                       message |-> "Action completed successfully",
                       error |-> None]

\* a dict with a message and a path but no success key, wrapped whole
C16_Witness ==
    /\ served /\ returned.type = "dict"
    /\ DOMAIN returned.val = {"message", "path"}
    /\ resp.success
    /\ resp.data.val = returned
    /\ resp.message = "Action completed successfully"

-----------------------------------------------------------------------------
(* Properties of analyze_code, checked under Spec *)

AnalyzeServed == served /\ req.action = "analyze_code" /\ BackendUp

ReadFails == Param("file_path", <<>>) # <<>> /\ ~Readable(Param("file_path", <<>>))

\* the read of the file named by file_path failed: the response is that
\* failure and no generate call was made
FailsThroughRead ==
    /\ ~resp.success
    /\ resp.message = read_file(fs, Param("file_path", <<>>), environment).val.message
    /\ storeOps = <<"read_file">>
    /\ backendCalls = <<>>

FileCode ==
    IF Param("file_path", <<>>) # <<>> /\ Readable(Param("file_path", <<>>))
    THEN Decode(fs.files[Param("file_path", <<>>)])
    ELSE <<>>

NoCodeError == resp.error = Some("Code or file path is required")

\* C17 as stated: analyze_code with the backend available returns "Code or
\* file path is required" exactly when neither the code parameter nor the
\* file named by file_path yields non-empty code, so a non-empty code
\* parameter is analyzed even beside a readable empty file; when the read
\* of file_path fails the response is that failure and generate is not
\* called.
C17_ErrorIffNeitherYieldsCode ==
    AnalyzeServed
    => IF ReadFails
       THEN FailsThroughRead
       ELSE NoCodeError <=> (Param("code", <<>>) = <<>> /\ FileCode = <<>>)

\* the code analyzed: the content of the file when file_path is given, the
\* code parameter otherwise
ResolvedCode ==
    IF Param("file_path", <<>>) # <<>> THEN FileCode ELSE Param("code", <<>>)

\* C17: analyze_code with the backend available takes its code from the
\* file when file_path is given and from the code parameter otherwise.  When
\* the read of file_path fails the response is that failure and generate
\* is not called; otherwise the response is "Code or file path is
\* required", without a generate call, exactly when the code so resolved is
\* empty, and else generate is called once on that code.
C17_ErrorIffResolvedCodeEmpty ==
    AnalyzeServed
    => IF ReadFails
       THEN FailsThroughRead
       ELSE /\ NoCodeError <=> ResolvedCode = <<>>
            /\ IF ResolvedCode = <<>>
               THEN backendCalls = <<>>
               ELSE /\ Len(backendCalls) = 1
                    /\ backendCalls[1].endpoint = "generate"
                    /\ backendCalls[1].payload.prompt.code = ResolvedCode

\* a code parameter beside a readable empty file: the validation error
C17_Witness ==
    /\ AnalyzeServed
    /\ Param("code", <<>>) # <<>>
    /\ Param("file_path", <<>>) # <<>>
    /\ Readable(Param("file_path", <<>>))
    /\ FileCode = <<>>
    /\ NoCodeError
    /\ backendCalls = <<>>

-----------------------------------------------------------------------------
(* Properties of the conversation sent by chat, checked under Spec *)

\* C18: a chat with a non-empty message m and a history h of mappings, the
\* backend available, sends one message sequence of length Len(h) + 2: the
\* system entry with the fixed system prompt, then for each entry of h, in
\* order, its role and content (role "user" and content "" where the entry
\* has none), then the entry of role user and content m.
C18_ConversationSent ==
    (/\ served /\ req.action = "chat" /\ BackendUp
     /\ Param("message", "") # ""
     /\ \A i \in 1..Len(Param("history", <<>>)) : Param("history", <<>>)[i].type = "dict")
    => /\ Len(backendCalls) = 1
       /\ backendCalls[1].endpoint = "chat"
       /\ Len(backendCalls[1].payload.messages) = Len(Param("history", <<>>)) + 2
       /\ backendCalls[1].payload.messages[1]
             = [role |-> "system", content |-> "You are a Local Development Assistant."]
       /\ \A i \in 1..Len(Param("history", <<>>)) :
             backendCalls[1].payload.messages[i + 1]
                = [role |-> IF "role" \in DOMAIN Param("history", <<>>)[i].val
                            THEN Param("history", <<>>)[i].val.role ELSE "user",
                   content |-> IF "content" \in DOMAIN Param("history", <<>>)[i].val
                               THEN Param("history", <<>>)[i].val.content ELSE ""]
       /\ backendCalls[1].payload.messages[Len(Param("history", <<>>)) + 2]
             = [role |-> "user", content |-> Param("message", "")]

\* a conversation of four messages sent for a history of two different
\* entries
C18_Witness ==
    /\ served /\ req.action = "chat" /\ BackendUp
    /\ Param("message", "") = "hello"
    /\ Len(Param("history", <<>>)) = 2
    /\ Param("history", <<>>)[1] = Dict([role |-> "user", content |-> "a question"])
    /\ Param("history", <<>>)[2] = Dict([role |-> "assistant"])
    /\ Len(backendCalls) = 1
    /\ Len(backendCalls[1].payload.messages) = 4
    /\ backendCalls[1].payload.messages[3].role = "assistant"

-----------------------------------------------------------------------------
(* Properties of the chat loop of the command line, checked under SpecCli *)

RECURSIVE Turns(_)
\* the user and assistant turns of a sequence of exchanges, oldest first
Turns(done) ==
    IF done = <<>> THEN <<>>
    ELSE <<Dict([role |-> "user", content |-> Head(done).user]),
           Dict([role |-> "assistant", content |-> Head(done).assistant])>>
         \o Turns(Tail(done))

\* at most 20 entries, an even number of them, user and assistant by turns
WellFormedHistory(hist) ==
    /\ Len(hist) <= 20
    /\ Len(hist) % 2 = 0
    /\ \A i \in 1..Len(hist) :
          /\ hist[i].type = "dict"
          /\ DOMAIN hist[i].val = {"role", "content"}
          /\ hist[i].val.role = IF i % 2 = 1 THEN "user" ELSE "assistant"

\* the last 20 turns of the exchanges completed
MostRecentTurns(done) ==
    IF Len(Turns(done)) > 20
    THEN SubSeq(Turns(done), Len(Turns(done)) - 19, Len(Turns(done)))
    ELSE Turns(done)

HistoryKept ==
    /\ WellFormedHistory(cli.history)
    /\ cli.history = MostRecentTurns(exchanges)
    /\ (served /\ req.action = "chat") => WellFormedHistory(req.parameters.history)

\* the user turn and the assistant turn of the request just answered
TurnsAnswered ==
    <<Dict([role |-> "user", content |-> req'.parameters.message]),
      Dict([role |-> "assistant", content |-> resp'.data.val.val.response])>>

\* one step of the loop: a chat that failed, or no chat at all, leaves the
\* history as it was; a chat that succeeded was sent the history, and
\* appends the user turn and the assistant turn to it and keeps the last 20
HistoryStep ==
    /\ ~resp'.success => (cli'.history = cli.history /\ exchanges' = exchanges)
    /\ exchanges' = exchanges => cli'.history = cli.history
    /\ exchanges' # exchanges
       => /\ served' /\ resp'.success
          /\ req'.parameters.history = cli.history
          /\ exchanges' = Append(exchanges, [user |-> req'.parameters.message,
                                             assistant |-> resp'.data.val.val.response])
          /\ cli'.history = IF Len(cli.history) + 2 > 20
                            THEN SubSeq(cli.history \o TurnsAnswered,
                                        Len(cli.history) + 2 - 19, Len(cli.history) + 2)
                            ELSE cli.history \o TurnsAnswered

\* C19: in the chat loop of the command line the history, and so the
\* history passed to the gateway, always has at most 20 entries, an even
\* number of them, user and assistant by turns starting with user, and is
\* the most recent successful exchanges in order; a failed chat request or
\* an empty input leaves it unchanged, and a successful one appends the
\* user turn and then the assistant turn before it is cut to the last 20.
C19_HistoryIsRecentExchanges == [](HistoryKept) /\ [][HistoryStep]_vars

\* the eleventh exchange done: the first one has left the history
C19_Witness ==
    /\ Len(exchanges) = 11
    /\ Len(cli.history) = 20
    /\ exchanges[1].assistant # exchanges[2].assistant
    /\ cli.history[2].val.content = exchanges[2].assistant
    /\ served /\ resp.success /\ Len(req.parameters.history) = 20

-----------------------------------------------------------------------------
(* Properties of the key files of suggest_improvements, checked under Spec *)

\* the name when the file of that path in the project can be read
IfReadable(path, name) ==
    IF Readable(<<Param("project", "")>> \o path) THEN <<name>> ELSE <<>>

\* the key files of the project that can be read, in their fixed order
ReadableKeyFiles ==
    IfReadable(<<"README.md">>, "README.md")
    \o IfReadable(<<"requirements.txt">>, "requirements.txt")
    \o IfReadable(<<"src", "main.py">>, "src/main.py")

\* C20: suggest_improvements for a project that list_projects reports, the
\* backend available, tries to read the three key files and calls generate
\* exactly once whichever of them can be read, none included; when that
\* call succeeds the response is success and data.analyzed_files is the
\* key files that can be read, in the order README.md, requirements.txt,
\* src/main.py.
C20_UnreadableKeyFilesAreSkipped ==
    (served /\ req.action = "suggest_improvements" /\ BackendUp
            /\ Param("project", "") \in ListedNames)
    => /\ storeOps = <<"list_projects", "read_file", "read_file", "read_file">>
       /\ Len(backendCalls) = 1
       /\ backendCalls[1].endpoint = "generate"
       /\ resp.success <=> backendCalls[1].reply.status = 200
       /\ resp.success
          => /\ resp.data.val.val.analyzed_files = ReadableKeyFiles
             /\ resp.data.val.val.project = Param("project", "")

\* a project whose three key files exist and none can be read, analyzed
C20_Witness ==
    /\ served /\ req.action = "suggest_improvements" /\ BackendUp
    /\ Param("project", "") = "p"
    /\ \A i \in 1..3 : IsFile(fs, <<"p">> \o key_files[i])
    /\ ReadableKeyFiles = <<>>
    /\ Len(backendCalls) = 1
    /\ resp.success
    /\ resp.data.val.val.analyzed_files = <<>>

-----------------------------------------------------------------------------
(* Properties of the actions that need no backend, checked under           *)
(* SpecAnyBackend                                                          *)

\* the request just served leaves the response and the workspace it would
\* leave had the backend answered the probe with that reply
SameWhateverProbe(probe) ==
    \A other \in {process_request(req', fs, clock + 1,
                                  [environment' EXCEPT !.probe = probe])} :
        /\ other.resp = resp'
        /\ other.fs = fs'
        /\ other.probes = <<>>
        /\ other.backendCalls = <<>>

\* C21: a create_project, list_projects, read_file, write_file or
\* run_command request makes no availability probe and no generate or chat
\* call, and for the same request on the same workspace the response and
\* the workspace afterwards are the same whatever the backend would answer,
\* available or not.
C21_StoreActionsIgnoreBackend ==
    [][(/\ ~served /\ served'
        /\ req'.action \in {"create_project", "list_projects", "read_file",
                            "write_file", "run_command"})
       => /\ probes' = <<>>
          /\ backendCalls' = <<>>
          /\ \A probe \in ProbeReplies : SameWhateverProbe(probe)]_vars

\* a file written, with success, while the backend refuses the connection
C21_Witness ==
    /\ served /\ req.action = "write_file"
    /\ backend.status = 0
    /\ BackendDown
    /\ resp.success
    /\ probes = <<>>
    /\ IsFile(fs, req.parameters.path)

-----------------------------------------------------------------------------
(* Properties of the payload of the delegating actions, checked under Spec *)

\* the keys of the store's payload for the action
PayloadKeys ==
    CASE req.action = "read_file" -> {"content", "size"}
      [] req.action = "write_file" -> {"path", "size"}
      [] req.action = "run_command" -> {"stdout", "stderr", "returncode"}

\* C22: the response to a read_file, write_file or run_command request
\* that succeeded has in data what the store returned: the content and
\* size of the file read, the path and size of the file written, the
\* stdout, stderr and returncode of the command; data is not null.
C22_SuccessDeliversPayload ==
    (served /\ req.action \in {"read_file", "write_file", "run_command"} /\ resp.success)
    => /\ resp.data # None
       /\ resp.data.val.type = "dict"
       /\ \A k \in PayloadKeys :
             /\ k \in DOMAIN resp.data.val.val
             /\ resp.data.val.val[k] = returned.val[k]

-----------------------------------------------------------------------------
(* Properties of a create_project that fails, checked under Spec *)

\* C23: a create_project request that returns a failure, the project being
\* there already or the creation of the directory or the writing of a
\* template file having raised, leaves in the workspace the directories and
\* files that were there before the call, so that nothing of the project
\* stands in the way of creating it later.
C23_FailedCreateLeavesWorkspace ==
    [][(/\ ~served /\ served'
        /\ req'.action = "create_project"
        /\ ~resp'.success)
       => /\ fs'.dirs = fs.dirs
          /\ fs'.files = fs.files]_vars

====
